---- MODULE Spec2Model ----
(***************************************************************************)
(* MultiTool: the PDF compressor page, the PDF-to-DOCX converter page, the *)
(* route guard and the password generator, as state machines.              *)
(*                                                                         *)
(* A nullable value (File | null, Blob | null) is a sequence of length 0   *)
(* or 1.  A JavaScript string is a TLA+ string; s1 \o s2 concatenates.     *)
(***************************************************************************)
EXTENDS Integers, Sequences, FiniteSets, TLC

VARIABLES
    location,       \* location.pathname, or "idp" while the browser is at the
                    \* identity provider
    history,        \* the paths to which the browser's back button leads
    isLoading,      \* useAuth0().isLoading
    isAuthenticated,    \* useAuth0().isAuthenticated
    sessionStored,  \* the identity SDK holds a session for this browser
    signIn,         \* who sent the browser to the identity provider, or "none"
    page,           \* the page component that is mounted, or "none"
    compressor,     \* useState of PdfCompressor (backend variant)
    compressOps,    \* the compressPdf calls in flight, one slot per call
    converter,      \* useState of PdfConverter (DOCX variant)
    convertOps,     \* the convertPdf calls in flight, one slot per call
    download,       \* the last synthetic anchor click: file name and blob
    generatorMounted,   \* PasswordGenerator is mounted
    options,        \* useState of PasswordGenerator: the password options
    password,       \* useState of PasswordGenerator: the displayed password
    debounceTimer,  \* the pending timeouts of the debounce effect, oldest first:
                    \* for each the options its callback closes over and the
                    \* milliseconds until it is due
    generatedFrom,  \* the options read by the generatePassword call that set the
                    \* displayed password, or Null
    apiCall,        \* the call of the API client's compressPdf: its position, its
                    \* parameters, the request it sent and how it ended
    layout          \* the converter's work on the text of one page: the text
                    \* items, the lines, the line being converted and the
                    \* paragraphs pushed so far

pdfVars == <<page, compressor, compressOps, converter, convertOps, download>>
passwordVars == <<generatorMounted, options, password, debounceTimer, generatedFrom>>
routeVars == <<location, history, isLoading, isAuthenticated, sessionStored, signIn>>
vars == <<routeVars, pdfVars, passwordVars, apiCall, layout>>

(***************************************************************************)
(* Bounds of the model                                                     *)
(***************************************************************************)
MaxFileSize == 2
MaxBlobSize == 2
MaxOps == 2
MaxPages == 2
MaxHistory == 2
MaxItems == 3
TickMs == 100
LengthStep == 42
MaxSeed == 1
RandomModulus == 89
RandomStride == 11
LevelStep == 50

(***************************************************************************)
(* Values                                                                  *)
(***************************************************************************)
Null == <<>>
Some(x) == <<x>>

PdfMime == "application/pdf"

\* The files a user can drop: PDFs of every size, a PDF whose name holds ".pdf"
\* twice, and a file the dropzone lets through by its extension although its
\* declared type is not the PDF type.
Files ==
    {[name |-> "a.pdf", type |-> PdfMime, size |-> n] : n \in 0..MaxFileSize}
        \cup {[name |-> "b.pdf.pdf", type |-> PdfMime, size |-> 1],
              [name |-> "notes.pdf", type |-> "text/plain", size |-> 1]}

\* What useDropzone hands to onDrop (multiple: false): no file or one file.
AcceptedFiles == {<<>>} \cup {<<f>> : f \in Files}


(***************************************************************************)
(* JavaScript strings and numbers                                          *)
(***************************************************************************)
\* String.prototype.indexOf: the first position (1-based) of pat in s, or 0.
IndexOf(s, pat) ==
    LET hits == {i \in 1..(Len(s) - Len(pat) + 1) : SubSeq(s, i, i + Len(pat) - 1) = pat}
    IN IF hits = {} THEN 0 ELSE CHOOSE i \in hits : \A j \in hits : i <= j

\* String.prototype.includes, startsWith, endsWith
Contains(s, part) == IndexOf(s, part) > 0
StartsWith(s, prefix) == Len(s) >= Len(prefix) /\ SubSeq(s, 1, Len(prefix)) = prefix
EndsWith(s, suffix) ==
    Len(s) >= Len(suffix) /\ SubSeq(s, Len(s) - Len(suffix) + 1, Len(s)) = suffix

\* String.prototype.replace with a string pattern: the first occurrence only.
Replace(s, pat, rep) ==
    LET i == IndexOf(s, pat)
    IN IF i = 0 THEN s
       ELSE SubSeq(s, 1, i - 1) \o rep \o SubSeq(s, i + Len(pat), Len(s))

\* A JavaScript number that comes out of a division: a rational num/den with
\* den > 0, or NaN, or -Infinity.
Num(n, d) == [kind |-> "num", num |-> n, den |-> d]
NaN == [kind |-> "nan", num |-> 0, den |-> 1]
NegInfinity == [kind |-> "-inf", num |-> 0, den |-> 1]

IsNegative(r) == r.kind = "-inf" \/ (r.kind = "num" /\ r.num < 0)

\* ((originalSize - compressedSize) / originalSize) * 100
Reduction(originalSize, compressedSize) ==
    IF originalSize > 0
    THEN Num((originalSize - compressedSize) * 100, originalSize)
    ELSE IF originalSize - compressedSize = 0 THEN NaN ELSE NegInfinity

\* Mutant of MathMax0: the clamp is forgotten.
NoClamp(r) == r

\* Math.max(0, r): NaN if r is NaN, else the larger of 0 and r.
MathMax0(r) ==
    IF r.kind = "nan" THEN NaN
    ELSE IF IsNegative(r) THEN Num(0, 1) ELSE r

(***************************************************************************)
(* PdfCompressor (backend variant)                                         *)
(***************************************************************************)
MinLevel == 0
MaxLevel == 100
DefaultLevel == 50

\* The values the range input can deliver, thinned by LevelStep.
LevelInputs == {v \in MinLevel..MaxLevel : v % LevelStep = 0}

Tokens == {"jwt1", "jwt2"}
TokenErrors == {"Login required"}
NetworkErrors == {"Failed to fetch"}
BodyErrors == {"network error"}
Responses == {[status |-> 200, statusText |-> "OK"],
              [status |-> 401, statusText |-> "Unauthorized"],
              [status |-> 500, statusText |-> "Internal Server Error"]}
ErrorTexts == {"", "bad file"}

\* Response.ok
ResponseOk(response) == response.status >= 200 /\ response.status <= 299

InvalidPdfMessage == "Please upload a valid PDF file"
CompressFailedPrefix == "Failed to compress PDF: "

\* Mutant of HttpErrorMessage: the response text is dropped.
HttpErrorWithoutText(response, errorText) ==
    CompressFailedPrefix \o ToString(response.status) \o " " \o response.statusText

\* The message of the Error thrown for a non-2xx response.
HttpErrorMessage(response, errorText) ==
    CompressFailedPrefix \o ToString(response.status) \o " " \o response.statusText
        \o ". " \o errorText

OpIds == 1..MaxOps

IdleOp ==
    [pc |-> "idle", pdfFile |-> Null, compressionLevel |-> 0, originalSize |-> 0,
     token |-> "", request |-> Null, response |-> Null,
     tokenRequests |-> 0, posts |-> 0]

\* The compressor is the mounted page; the converter is not there.
OnCompressor ==
    page = "PdfCompressor" /\ UNCHANGED <<page, converter, convertOps, passwordVars, routeVars, apiCall, layout>>

InitCompressor ==
    /\ compressor = [pdfFile |-> Null, isCompressing |-> FALSE, compressedPdf |-> Null,
                     error |-> "", compressionLevel |-> DefaultLevel,
                     compressionStats |-> Null]
    /\ compressOps = [i \in OpIds |-> IdleOp]

\* Mutant of IsPdfType: the type of the file is not looked at.
AnyType(file) == TRUE

\* file.type === "application/pdf"

IsPdfType(file) == file.type = PdfMime

\* Mutant of CompressorOnDrop: a new file cancels the busy state.
CompressorOnDropCancels(acceptedFiles) ==
    /\ OnCompressor
    /\ IF Len(acceptedFiles) > 0
       THEN LET file == acceptedFiles[1]
            IN IF IsPdfType(file)
               THEN compressor' = [compressor EXCEPT !.pdfFile = Some(file),
                                                     !.error = "",
                                                     !.compressedPdf = Null,
                                                     !.compressionStats = Null,
                                                     !.isCompressing = FALSE]
               ELSE compressor' = [compressor EXCEPT !.error = InvalidPdfMessage]
       ELSE UNCHANGED compressor
    /\ UNCHANGED <<compressOps, download>>

\* Mutant of CompressorOnDrop: a rejected upload clears the stored result too.
CompressorOnDropRejectClears(acceptedFiles) ==
    /\ OnCompressor
    /\ IF Len(acceptedFiles) > 0
       THEN LET file == acceptedFiles[1]
            IN IF IsPdfType(file)
               THEN compressor' = [compressor EXCEPT !.pdfFile = Some(file),
                                                     !.error = "",
                                                     !.compressedPdf = Null,
                                                     !.compressionStats = Null]
               ELSE compressor' = [compressor EXCEPT !.error = InvalidPdfMessage,
                                                     !.compressedPdf = Null,
                                                     !.compressionStats = Null]
       ELSE UNCHANGED compressor
    /\ UNCHANGED <<compressOps, download>>

\* onDrop of PdfCompressor
CompressorOnDrop(acceptedFiles) ==
    /\ OnCompressor
    /\ IF Len(acceptedFiles) > 0
       THEN LET file == acceptedFiles[1]
            IN IF IsPdfType(file)
               THEN compressor' = [compressor EXCEPT !.pdfFile = Some(file),
                                                     !.error = "",
                                                     !.compressedPdf = Null,
                                                     !.compressionStats = Null]
               ELSE compressor' = [compressor EXCEPT !.error = InvalidPdfMessage]
       ELSE UNCHANGED compressor
    /\ UNCHANGED <<compressOps, download>>

\* onChange of the compression level slider, rendered when a file is selected
SetCompressionLevel(v) ==
    /\ OnCompressor
    /\ compressor.pdfFile # Null
    /\ compressor' = [compressor EXCEPT !.compressionLevel = v]
    /\ UNCHANGED <<compressOps, download>>

\* Mutant of CompressDisabled: the busy flag does not disable the button.
NeverBusy(c) == c.pdfFile = Null

\* disabled={!pdfFile || isCompressing}

CompressDisabled(c) == c.pdfFile = Null \/ c.isCompressing

FreeSlot(i) ==
    /\ compressOps[i].pc = "idle"
    /\ \A j \in OpIds : compressOps[j].pc = "idle" => i <= j

\* Mutant of CompressClick: the error of the last operation is not cleared.
CompressClickKeepsError(i) ==
    /\ OnCompressor
    /\ ~CompressDisabled(compressor)
    /\ FreeSlot(i)
    /\ compressor' = [compressor EXCEPT !.isCompressing = TRUE,
                                        !.compressedPdf = Null]
    /\ compressOps' = [compressOps EXCEPT ![i] =
           [IdleOp EXCEPT !.pc = "token",
                          !.tokenRequests = 1,
                          !.pdfFile = compressor.pdfFile,
                          !.compressionLevel = compressor.compressionLevel,
                          !.originalSize = compressor.pdfFile[1].size]]
    /\ UNCHANGED download

\* compressPdf up to its first await: the click, the three setters, the token request;
\* tokenRequests and posts count the calls of getAccessTokenSilently and of fetch
\* that this invocation has made.
CompressClick(i) ==
    /\ OnCompressor
    /\ ~CompressDisabled(compressor)
    /\ FreeSlot(i)
    /\ compressor' = [compressor EXCEPT !.isCompressing = TRUE,
                                        !.error = "",
                                        !.compressedPdf = Null]
    /\ compressOps' = [compressOps EXCEPT ![i] =
           [IdleOp EXCEPT !.pc = "token",
                          !.tokenRequests = 1,
                          !.pdfFile = compressor.pdfFile,
                          !.compressionLevel = compressor.compressionLevel,
                          !.originalSize = compressor.pdfFile[1].size]]
    /\ UNCHANGED download

\* Mutant of CompressCatch: a failed operation asks for a token again.
CompressCatchRetries(i, message) ==
    /\ OnCompressor
    /\ compressor' = [compressor EXCEPT !.error = CompressFailedPrefix \o message]
    /\ compressOps' = [compressOps EXCEPT ![i] =
           [compressOps[i] EXCEPT !.pc = "token",
                                  !.tokenRequests = compressOps[i].tokenRequests + 1]]
    /\ UNCHANGED download

\* Mutant of CompressCatch: there is no finally block, the busy flag stays set.
CompressCatchStaysBusy(i, message) ==
    /\ OnCompressor
    /\ compressor' = [compressor EXCEPT !.error = CompressFailedPrefix \o message]
    /\ compressOps' = [compressOps EXCEPT ![i] = IdleOp]
    /\ UNCHANGED download

\* catch (err) { setError(...) } finally { setIsCompressing(false) }
CompressCatch(i, message) ==
    /\ OnCompressor
    /\ compressor' = [compressor EXCEPT !.error = CompressFailedPrefix \o message,
                                        !.isCompressing = FALSE]
    /\ compressOps' = [compressOps EXCEPT ![i] = IdleOp]
    /\ UNCHANGED download

\* Mutant of TokenResolves: the header carries the token without "Bearer ".
TokenResolvesWithoutBearer(i, token) ==
    /\ OnCompressor
    /\ compressOps[i].pc = "token"
    /\ LET op == compressOps[i]
           formData == [file |-> op.pdfFile[1],
                        compressionLevel |-> ToString(op.compressionLevel)]
       IN compressOps' = [compressOps EXCEPT ![i] =
              [op EXCEPT !.pc = "fetch",
                         !.token = token,
                         !.posts = op.posts + 1,
                         !.request = Some([method |-> "POST",
                                           path |-> "/api/pdf/v2/compress",
                                           authorization |-> token,
                                           body |-> formData])]]
    /\ UNCHANGED <<compressor, download>>

\* getAccessTokenSilently resolves: the form data is built and fetch is called
TokenResolves(i, token) ==
    /\ OnCompressor
    /\ compressOps[i].pc = "token"
    /\ LET op == compressOps[i]
           formData == [file |-> op.pdfFile[1],
                        compressionLevel |-> ToString(op.compressionLevel)]
       IN compressOps' = [compressOps EXCEPT ![i] =
              [op EXCEPT !.pc = "fetch",
                         !.token = token,
                         !.posts = op.posts + 1,
                         !.request = Some([method |-> "POST",
                                           path |-> "/api/pdf/v2/compress",
                                           authorization |-> "Bearer " \o token,
                                           body |-> formData])]]
    /\ UNCHANGED <<compressor, download>>

\* Mutant of TokenRejects: the request is sent although no token was obtained.
TokenRejectsStillPosts(i, message) ==
    /\ OnCompressor
    /\ compressOps[i].pc = "token"
    /\ LET op == compressOps[i]
           formData == [file |-> op.pdfFile[1],
                        compressionLevel |-> ToString(op.compressionLevel)]
       IN compressOps' = [compressOps EXCEPT ![i] =
              [op EXCEPT !.pc = "fetch",
                         !.posts = op.posts + 1,
                         !.request = Some([method |-> "POST",
                                           path |-> "/api/pdf/v2/compress",
                                           authorization |-> "Bearer " \o op.token,
                                           body |-> formData])]]
    /\ UNCHANGED <<compressor, download>>

\* getAccessTokenSilently rejects
TokenRejects(i, message) ==
    /\ compressOps[i].pc = "token"
    /\ CompressCatch(i, message)

\* fetch resolves with a response, of any status
FetchResolves(i, response) ==
    /\ OnCompressor
    /\ compressOps[i].pc = "fetch"
    /\ compressOps' = [compressOps EXCEPT ![i] =
           [compressOps[i] EXCEPT !.pc = IF ResponseOk(response) THEN "blob" ELSE "text",
                                  !.response = Some(response)]]
    /\ UNCHANGED <<compressor, download>>

FetchRejects(i, message) ==
    /\ compressOps[i].pc = "fetch"
    /\ CompressCatch(i, message)

\* response.text() resolves for a non-2xx response: the Error is thrown and caught
TextResolves(i, errorText) ==
    /\ compressOps[i].pc = "text"
    /\ CompressCatch(i, HttpErrorMessage(compressOps[i].response[1], errorText))

\* response.text() or response.blob() rejects
BodyRejects(i, message) ==
    /\ compressOps[i].pc \in {"text", "blob"}
    /\ CompressCatch(i, message)

\* response.blob() resolves: the result and the statistics are stored
BlobResolves(i, size) ==
    /\ OnCompressor
    /\ compressOps[i].pc = "blob"
    /\ LET op == compressOps[i]
           blob == [size |-> size, of |-> op.pdfFile[1]]
           reduction == Reduction(op.originalSize, size)
       IN compressor' = [compressor EXCEPT
              !.compressedPdf = Some(blob),
              !.compressionStats = Some([originalSize |-> op.originalSize,
                                         compressedSize |-> size,
                                         reduction |-> MathMax0(reduction)]),
              !.isCompressing = FALSE]
    /\ compressOps' = [compressOps EXCEPT ![i] = IdleOp]
    /\ UNCHANGED download

\* pdfFile.name.replace(".pdf", "_compressed.pdf")
CompressedName(name) == Replace(name, ".pdf", "_compressed.pdf")

\* downloadCompressed, behind the button rendered with the results
DownloadCompressed ==
    /\ OnCompressor
    /\ compressor.compressionStats # Null
    /\ compressor.compressedPdf # Null
    /\ compressor.pdfFile # Null
    /\ download' = Some([name |-> CompressedName(compressor.pdfFile[1].name),
                         blob |-> compressor.compressedPdf[1]])
    /\ UNCHANGED <<compressor, compressOps>>

NextCompressor ==
       \/ \E a \in AcceptedFiles : CompressorOnDrop(a)
       \/ \E v \in LevelInputs : SetCompressionLevel(v)
       \/ \E i \in OpIds : CompressClick(i)
       \/ \E i \in OpIds, t \in Tokens : TokenResolves(i, t)
       \/ \E i \in OpIds, m \in TokenErrors : TokenRejects(i, m)
       \/ \E i \in OpIds, r \in Responses : FetchResolves(i, r)
       \/ \E i \in OpIds, m \in NetworkErrors : FetchRejects(i, m)
       \/ \E i \in OpIds, t \in ErrorTexts : TextResolves(i, t)
       \/ \E i \in OpIds, m \in BodyErrors : BodyRejects(i, m)
       \/ \E i \in OpIds, n \in 0..MaxBlobSize : BlobResolves(i, n)
       \/ DownloadCompressed

(***************************************************************************)
(* PdfConverter (PDF to DOCX)                                              *)
(***************************************************************************)
ConvertFailedPrefix == "Failed to convert PDF: "

ReadErrors == {"The requested file could not be read"}
ParseErrors == {"Invalid PDF structure."}
PageErrors == {"Invalid page request."}
PackErrors == {"Invalid array length"}

IdleConvertOp ==
    [pc |-> "idle", pdfFile |-> Null, numPages |-> 0, i |-> 0]

\* The converter is the mounted page; the compressor is not there.
OnConverter ==
    page = "PdfConverter" /\ UNCHANGED <<page, compressor, compressOps, passwordVars, routeVars, apiCall, layout>>

InitConverter ==
    /\ converter = [pdfFile |-> Null, isConverting |-> FALSE, convertedDocx |-> Null,
                    error |-> "", pageCount |-> 0]
    /\ convertOps = [k \in OpIds |-> IdleConvertOp]

\* Mutant of ConverterOnDrop: the page count of the last conversion is kept.
ConverterOnDropKeepsPageCount(acceptedFiles) ==
    /\ OnConverter
    /\ IF Len(acceptedFiles) > 0
       THEN LET file == acceptedFiles[1]
            IN IF IsPdfType(file)
               THEN converter' = [converter EXCEPT !.pdfFile = Some(file),
                                                   !.error = "",
                                                   !.convertedDocx = Null]
               ELSE converter' = [converter EXCEPT !.error = InvalidPdfMessage]
       ELSE UNCHANGED converter
    /\ UNCHANGED <<convertOps, download>>

\* onDrop of PdfConverter
ConverterOnDrop(acceptedFiles) ==
    /\ OnConverter
    /\ IF Len(acceptedFiles) > 0
       THEN LET file == acceptedFiles[1]
            IN IF IsPdfType(file)
               THEN converter' = [converter EXCEPT !.pdfFile = Some(file),
                                                   !.error = "",
                                                   !.convertedDocx = Null,
                                                   !.pageCount = 0]
               ELSE converter' = [converter EXCEPT !.error = InvalidPdfMessage]
       ELSE UNCHANGED converter
    /\ UNCHANGED <<convertOps, download>>

\* disabled={!pdfFile || isConverting}
ConvertDisabled(c) == c.pdfFile = Null \/ c.isConverting

FreeConvertSlot(k) ==
    /\ convertOps[k].pc = "idle"
    /\ \A j \in OpIds : convertOps[j].pc = "idle" => k <= j

\* convertPdf up to its first await: the click, the three setters, arrayBuffer()
ConvertClick(k) ==
    /\ OnConverter
    /\ ~ConvertDisabled(converter)
    /\ FreeConvertSlot(k)
    /\ converter' = [converter EXCEPT !.isConverting = TRUE,
                                      !.error = "",
                                      !.convertedDocx = Null]
    /\ convertOps' = [convertOps EXCEPT ![k] =
           [IdleConvertOp EXCEPT !.pc = "read", !.pdfFile = converter.pdfFile]]
    /\ UNCHANGED download

\* Mutant of ConvertCatch: the failed conversion is started again.
ConvertCatchRetries(k, message) ==
    /\ OnConverter
    /\ converter' = [converter EXCEPT !.error = ConvertFailedPrefix \o message]
    /\ convertOps' = [convertOps EXCEPT ![k] =
           [IdleConvertOp EXCEPT !.pc = "read", !.pdfFile = convertOps[k].pdfFile]]
    /\ UNCHANGED download

\* catch (err) { setError(...) } finally { setIsConverting(false) }
ConvertCatch(k, message) ==
    /\ OnConverter
    /\ converter' = [converter EXCEPT !.error = ConvertFailedPrefix \o message,
                                      !.isConverting = FALSE]
    /\ convertOps' = [convertOps EXCEPT ![k] = IdleConvertOp]
    /\ UNCHANGED download

\* pdfFile.arrayBuffer() resolves: getDocument is called
ReadResolves(k) ==
    /\ OnConverter
    /\ convertOps[k].pc = "read"
    /\ convertOps' = [convertOps EXCEPT ![k] = [convertOps[k] EXCEPT !.pc = "parse"]]
    /\ UNCHANGED <<converter, download>>

ReadRejects(k, message) ==
    /\ convertOps[k].pc = "read"
    /\ ConvertCatch(k, message)

\* getDocument(...).promise resolves: the title is pushed, getPage(1) is called
ParseResolves(k, numPages) ==
    /\ OnConverter
    /\ convertOps[k].pc = "parse"
    /\ convertOps' = [convertOps EXCEPT ![k] =
           [convertOps[k] EXCEPT !.pc = "page", !.numPages = numPages, !.i = 1]]
    /\ UNCHANGED <<converter, download>>

ParseRejects(k, message) ==
    /\ convertOps[k].pc = "parse"
    /\ ConvertCatch(k, message)

\* pdf.getPage(i) resolves: getTextContent is called
PageResolves(k) ==
    /\ OnConverter
    /\ convertOps[k].pc = "page"
    /\ convertOps' = [convertOps EXCEPT ![k] = [convertOps[k] EXCEPT !.pc = "text"]]
    /\ UNCHANGED <<converter, download>>

\* page.getTextContent() resolves: the page's paragraphs are pushed; then the
\* next page is requested or, after the last page, Packer.toBlob is called
TextContentResolves(k) ==
    /\ OnConverter
    /\ convertOps[k].pc = "text"
    /\ LET op == convertOps[k]
       IN convertOps' = [convertOps EXCEPT ![k] =
              IF op.i + 1 <= op.numPages
              THEN [op EXCEPT !.pc = "page", !.i = op.i + 1]
              ELSE [op EXCEPT !.pc = "pack", !.i = op.i + 1]]
    /\ UNCHANGED <<converter, download>>

\* getPage or getTextContent rejects, or the layout code throws
PageRejects(k, message) ==
    /\ convertOps[k].pc \in {"page", "text"}
    /\ ConvertCatch(k, message)

\* pdfFile.name.replace(".pdf", ".docx")
DocxName(name) == Replace(name, ".pdf", ".docx")

\* Packer.toBlob resolves: the result is stored and downloaded at once
PackResolves(k) ==
    /\ OnConverter
    /\ convertOps[k].pc = "pack"
    /\ LET op == convertOps[k]
           blob == [of |-> op.pdfFile[1], pages |-> op.numPages]
       IN /\ converter' = [converter EXCEPT !.convertedDocx = Some(blob),
                                            !.pageCount = op.numPages,
                                            !.isConverting = FALSE]
          /\ download' = Some([name |-> DocxName(op.pdfFile[1].name), blob |-> blob])
    /\ convertOps' = [convertOps EXCEPT ![k] = IdleConvertOp]

PackRejects(k, message) ==
    /\ convertOps[k].pc = "pack"
    /\ ConvertCatch(k, message)

\* downloadConverted, behind the button rendered with the result
DownloadConverted ==
    /\ OnConverter
    /\ converter.convertedDocx # Null
    /\ converter.pdfFile # Null
    /\ download' = Some([name |-> DocxName(converter.pdfFile[1].name),
                         blob |-> converter.convertedDocx[1]])
    /\ UNCHANGED <<converter, convertOps>>

NextConverter ==
       \/ \E a \in AcceptedFiles : ConverterOnDrop(a)
       \/ \E k \in OpIds : ConvertClick(k)
       \/ \E k \in OpIds : ReadResolves(k)
       \/ \E k \in OpIds, m \in ReadErrors : ReadRejects(k, m)
       \/ \E k \in OpIds, n \in 1..MaxPages : ParseResolves(k, n)
       \/ \E k \in OpIds, m \in ParseErrors : ParseRejects(k, m)
       \/ \E k \in OpIds : PageResolves(k)
       \/ \E k \in OpIds : TextContentResolves(k)
       \/ \E k \in OpIds, m \in PageErrors : PageRejects(k, m)
       \/ \E k \in OpIds : PackResolves(k)
       \/ \E k \in OpIds, m \in PackErrors : PackRejects(k, m)
       \/ DownloadConverted

(***************************************************************************)
(* PasswordGenerator                                                       *)
(***************************************************************************)
MinLength == 8
MaxLength == 50
DefaultLength == 16
DebounceMs == 200

PlaceholderMessage == "Please select at least one character type"

Lowercase == "abcdefghijklmnopqrstuvwxyz"
Uppercase == "ABCDEFGHIJKLMNOPQRSTUVWXYZ"
Digits == "0123456789"
Symbols == "!@#$%^&*()_+-=[]{}|;:,.<>?"
\* The characters of the class /[0OoIl1]/
HardToSay == {"0", "O", "o", "I", "l", "1"}

DefaultOptions ==
    [length |-> DefaultLength, uppercase |-> TRUE, lowercase |-> TRUE, numbers |-> TRUE,
     symbols |-> TRUE, easyToSay |-> FALSE, easyToRead |-> FALSE]

Toggles == {"uppercase", "lowercase", "numbers", "symbols", "easyToSay", "easyToRead"}

\* The values the length slider can deliver, thinned by LengthStep.
LengthInputs == {n \in MinLength..MaxLength : (n - MinLength) % LengthStep = 0}

Seeds == 0..MaxSeed

\* The character at 0-based index j of s: s[j]
CharAt(s, j) == SubSeq(s, j + 1, j + 1)

\* charset.replace(/[...]/g, ""): s, from 0-based index j on, without the
\* characters of the class chars
RECURSIVE RemoveChars(_, _, _)
RemoveChars(s, chars, j) ==
    IF j >= Len(s) THEN ""
    ELSE (IF CharAt(s, j) \in chars THEN "" ELSE CharAt(s, j))
            \o RemoveChars(s, chars, j + 1)

\* Mutant of Charset: the numbers toggle is not looked at.
CharsetAlwaysDigits(o) ==
    LET all == (IF o.lowercase
                THEN (IF o.easyToRead THEN "abcdefghjkmnpqrstuvwxyz" ELSE Lowercase)
                ELSE "")
               \o (IF o.uppercase
                   THEN (IF o.easyToRead THEN "ABCDEFGHJKLMNPQRSTUVWXYZ" ELSE Uppercase)
                   ELSE "")
               \o (IF o.easyToRead THEN "23456789" ELSE Digits)
               \o (IF o.symbols
                   THEN (IF o.easyToRead THEN "!@#$%^&*" ELSE Symbols)
                   ELSE "")
    IN IF o.easyToSay THEN RemoveChars(all, HardToSay, 0) ELSE all

\* Mutant of Charset: the characters that are hard to say are not filtered out.
CharsetUnfiltered(o) ==
    (IF o.lowercase
     THEN (IF o.easyToRead THEN "abcdefghjkmnpqrstuvwxyz" ELSE Lowercase)
     ELSE "")
    \o (IF o.uppercase
        THEN (IF o.easyToRead THEN "ABCDEFGHJKLMNPQRSTUVWXYZ" ELSE Uppercase)
        ELSE "")
    \o (IF o.numbers
        THEN (IF o.easyToRead THEN "23456789" ELSE Digits)
        ELSE "")
    \o (IF o.symbols
        THEN (IF o.easyToRead THEN "!@#$%^&*" ELSE Symbols)
        ELSE "")

\* Mutant of Charset: the easyToSay filter removes every digit.
CharsetSayRemovesDigits(o) ==
    LET all == (IF o.lowercase
                THEN (IF o.easyToRead THEN "abcdefghjkmnpqrstuvwxyz" ELSE Lowercase)
                ELSE "")
               \o (IF o.uppercase
                   THEN (IF o.easyToRead THEN "ABCDEFGHJKLMNPQRSTUVWXYZ" ELSE Uppercase)
                   ELSE "")
               \o (IF o.numbers
                   THEN (IF o.easyToRead THEN "23456789" ELSE Digits)
                   ELSE "")
               \o (IF o.symbols
                   THEN (IF o.easyToRead THEN "!@#$%^&*" ELSE Symbols)
                   ELSE "")
    IN IF o.easyToSay
       THEN RemoveChars(all, HardToSay \cup {"2", "3", "4", "5", "6", "7", "8", "9"}, 0)
       ELSE all

\* The character set generatePassword builds from the options
Charset(o) ==
    LET all == (IF o.lowercase
                THEN (IF o.easyToRead THEN "abcdefghjkmnpqrstuvwxyz" ELSE Lowercase)
                ELSE "")
               \o (IF o.uppercase
                   THEN (IF o.easyToRead THEN "ABCDEFGHJKLMNPQRSTUVWXYZ" ELSE Uppercase)
                   ELSE "")
               \o (IF o.numbers
                   THEN (IF o.easyToRead THEN "23456789" ELSE Digits)
                   ELSE "")
               \o (IF o.symbols
                   THEN (IF o.easyToRead THEN "!@#$%^&*" ELSE Symbols)
                   ELSE "")
    IN IF o.easyToSay THEN RemoveChars(all, HardToSay, 0) ELSE all

\* Math.floor(Math.random() * n) for the j-th call of Math.random(), which
\* returns ((seed + j * RandomStride) % RandomModulus) / RandomModulus, in [0, 1)
RandomIndex(seed, j, n) ==
    (((seed + j * RandomStride) % RandomModulus) * n) \div RandomModulus

\* The loop of generatePassword from i = j on
RECURSIVE PasswordLoop(_, _, _, _)
PasswordLoop(charset, length, seed, j) ==
    IF j < length
    THEN CharAt(charset, RandomIndex(seed, j, Len(charset)))
            \o PasswordLoop(charset, length, seed, j + 1)
    ELSE ""

\* Mutant of GeneratedPassword: the loop runs one time too many.
GeneratedOneTooLong(o, seed) ==
    LET charset == Charset(o)
    IN IF Len(charset) = 0
       THEN PlaceholderMessage
       ELSE PasswordLoop(charset, o.length + 1, seed, 0)

\* Mutant of GeneratedPassword: an empty character set is not looked for.
GeneratedWithoutCheck(o, seed) ==
    LET charset == Charset(o)
    IN IF Len(charset) = 0 THEN "" ELSE PasswordLoop(charset, o.length, seed, 0)

\* What generatePassword hands to setPassword for the options o
GeneratedPassword(o, seed) ==
    LET charset == Charset(o)
    IN IF Len(charset) = 0
       THEN PlaceholderMessage
       ELSE PasswordLoop(charset, o.length, seed, 0)

\* setTimeout(() => generatePassword(), 200) of the render with options o
Timeout(o) == [options |-> o, remaining |-> DebounceMs]

InitPassword ==
    /\ generatorMounted = FALSE
    /\ options = DefaultOptions
    /\ password = ""
    /\ debounceTimer = Null
    /\ generatedFrom = Null

\* The component mounts: useState initialises, the mount effect generates the
\* first password and the debounce effect starts its first timer.
MountGenerator(seed) ==
    /\ ~generatorMounted
    /\ generatorMounted' = TRUE
    /\ options' = DefaultOptions
    /\ password' = GeneratedPassword(DefaultOptions, seed)
    /\ generatedFrom' = Some(DefaultOptions)
    /\ debounceTimer' = <<Timeout(DefaultOptions)>>
    /\ UNCHANGED <<pdfVars, routeVars, apiCall, layout>>

\* Mutant of HandleOptionChange: a pending timer is left running with the
\* callback of the earlier render.
HandleOptionChangeKeepsTimer(key, value) ==
    /\ generatorMounted
    /\ options' = [options EXCEPT ![key] = value]
    /\ debounceTimer' = IF debounceTimer # Null THEN debounceTimer ELSE <<Timeout(options')>>
    /\ UNCHANGED <<generatorMounted, password, generatedFrom, pdfVars, routeVars, apiCall, layout>>

\* Mutant of HandleOptionChange: the pending timeout is not cleared.
HandleOptionChangeNoClear(key, value) ==
    /\ generatorMounted
    /\ options' = [options EXCEPT ![key] = value]
    /\ debounceTimer' = Append(debounceTimer, Timeout(options'))
    /\ UNCHANGED <<generatorMounted, password, generatedFrom, pdfVars, routeVars, apiCall, layout>>

\* handleOptionChange: setOptions re-renders; the debounce effect's cleanup clears
\* the pending timer and the effect starts a new one, whose callback closes over
\* the generatePassword of this render.
HandleOptionChange(key, value) ==
    /\ generatorMounted
    /\ options' = [options EXCEPT ![key] = value]
    /\ debounceTimer' = <<Timeout(options')>>
    /\ UNCHANGED <<generatorMounted, password, generatedFrom, pdfVars, routeVars, apiCall, layout>>

\* The debounce timeout fires: generatePassword of the render that set it.
DebounceFires(seed) ==
    /\ generatorMounted
    /\ debounceTimer # Null
    /\ debounceTimer[1].remaining = 0
    /\ password' = GeneratedPassword(debounceTimer[1].options, seed)
    /\ generatedFrom' = Some(debounceTimer[1].options)
    /\ debounceTimer' = Tail(debounceTimer)
    /\ UNCHANGED <<generatorMounted, options, pdfVars, routeVars, apiCall, layout>>

\* Time passes, by TickMs at most and not beyond the moment a timeout is due.
Tick ==
    /\ generatorMounted
    /\ debounceTimer # Null
    /\ \A k \in 1..Len(debounceTimer) : debounceTimer[k].remaining > 0
    /\ debounceTimer' =
          [k \in 1..Len(debounceTimer) |->
              [debounceTimer[k] EXCEPT
                  !.remaining = IF @ > TickMs THEN @ - TickMs ELSE 0]]
    /\ UNCHANGED <<generatorMounted, options, password, generatedFrom, pdfVars, routeVars,
                   apiCall, layout>>

\* The generate button: generatePassword of the current render.
GenerateClick(seed) ==
    /\ generatorMounted
    /\ password' = GeneratedPassword(options, seed)
    /\ generatedFrom' = Some(options)
    /\ UNCHANGED <<generatorMounted, options, debounceTimer, pdfVars, routeVars, apiCall, layout>>

\* The component unmounts: the effect's cleanup clears the pending timer and
\* the state is gone.
UnmountGenerator ==
    /\ generatorMounted
    /\ generatorMounted' = FALSE
    /\ options' = DefaultOptions
    /\ password' = ""
    /\ debounceTimer' = Null
    /\ generatedFrom' = Null
    /\ UNCHANGED <<pdfVars, routeVars, apiCall, layout>>

NextPassword ==
    \/ \E seed \in Seeds : MountGenerator(seed)
    \/ \E key \in Toggles : HandleOptionChange(key, ~options[key])
    \/ \E n \in LengthInputs : HandleOptionChange("length", n)
    \/ Tick
    \/ \E seed \in Seeds : DebounceFires(seed)
    \/ \E seed \in Seeds : GenerateClick(seed)
    \/ UnmountGenerator

(***************************************************************************)
(* PdfConverter: the layout of one page's text                             *)
(***************************************************************************)
Abs(n) == IF n < 0 THEN -n ELSE n

\* The text items of a page, as getTextContent returns them: str, the
\* coordinates transform[4] (x) and transform[5] (y), and width.
Ys == {-1, 0, 2, 3, 23, 43, 44}
Xs == {-11, -1, 0, 30, 31}
Widths == {0, 10}
Fragments ==
    {[str |-> "a", x |-> 0, y |-> y, width |-> 10] : y \in Ys}
        \cup {[str |-> "b", x |-> x, y |-> 0, width |-> w] : x \in Xs, w \in Widths}
        \cup {[str |-> " ", x |-> 31, y |-> 0, width |-> 0]}

\* n items "a" at height y: a line of n fragments
RECURSIVE Row(_, _)
Row(y, n) ==
    IF n = 0 THEN <<>> ELSE <<[str |-> "a", x |-> 0, y |-> y, width |-> 10]>> \o Row(y, n - 1)

\* Pages with lines of three fragments: three such lines; two and a line of
\* two; three and a line of one; four.
TablePages ==
    {Row(0, 3) \o Row(23, 3) \o Row(44, 3),
     Row(0, 3) \o Row(23, 3) \o Row(44, 2),
     Row(0, 3) \o Row(23, 1) \o Row(44, 3) \o Row(0, 3),
     Row(0, 3) \o Row(23, 3) \o Row(44, 3) \o Row(0, 3)}

TextItems == UNION {[1..k -> Fragments] : k \in 0..MaxItems} \cup TablePages

\* viewport.width
PageWidths == {40, 50}

\* textItems.forEach of the line grouping, from item n on. A line is the
\* sequence of the indices of its items.
RECURSIVE GroupLoop(_, _, _, _, _)
GroupLoop(items, n, lines, currentY, currentLineItems) ==
    IF n > Len(items)
    THEN [lines |-> lines, currentLineItems |-> currentLineItems]
    ELSE LET y == items[n].y
         IN IF currentY = -1 \/ Abs(y - currentY) > 2
            THEN GroupLoop(items, n + 1,
                           IF Len(currentLineItems) > 0
                           THEN Append(lines, currentLineItems)
                           ELSE lines,
                           y, <<n>>)
            ELSE GroupLoop(items, n + 1, lines, currentY, Append(currentLineItems, n))

\* The lines of a page: the loop, then the push of the last line
GroupLines(items) ==
    LET r == GroupLoop(items, 1, <<>>, -1, <<>>)
    IN IF Len(r.currentLineItems) > 0
       THEN Append(r.lines, r.currentLineItems)
       ELSE r.lines

\* Array.prototype.sort is stable: n goes behind the last element whose x is
\* not larger.
RECURSIVE InsertByX(_, _, _)
InsertByX(items, sorted, n) ==
    IF sorted = <<>> THEN <<n>>
    ELSE IF items[sorted[Len(sorted)]].x <= items[n].x
         THEN Append(sorted, n)
         ELSE Append(InsertByX(items, SubSeq(sorted, 1, Len(sorted) - 1), n),
                     sorted[Len(sorted)])

\* line.sort((a, b) => a.transform[4] - b.transform[4])
RECURSIVE SortByX(_, _)
SortByX(items, line) ==
    IF line = <<>> THEN <<>>
    ELSE InsertByX(items, SortByX(items, SubSeq(line, 1, Len(line) - 1)), line[Len(line)])

\* line.forEach of the line text, from position p (idx = p - 1) on
RECURSIVE TextLoop(_, _, _, _, _)
TextLoop(items, line, p, lastX, lineText) ==
    IF p > Len(line) THEN lineText
    ELSE LET item == items[line[p]]
             currentX == item.x
             separator == IF lastX # -1 /\ currentX - lastX > 20 THEN "\t"
                          ELSE IF p - 1 > 0 THEN " " ELSE ""
         IN TextLoop(items, line, p + 1, currentX + item.width,
                     lineText \o separator \o item.str)

Whitespace == {" ", "\t"}

\* String.prototype.trim
RECURSIVE Trim(_)
Trim(s) ==
    IF s = "" THEN ""
    ELSE IF SubSeq(s, 1, 1) \in Whitespace THEN Trim(SubSeq(s, 2, Len(s)))
    ELSE IF SubSeq(s, Len(s), Len(s)) \in Whitespace THEN Trim(SubSeq(s, 1, Len(s) - 1))
    ELSE s

MinOf(S) == LET a == CHOOSE a \in S : \A b \in S : a <= b IN a
MaxOf(S) == LET a == CHOOSE a \in S : \A b \in S : a >= b IN a

\* Mutant of Alignment: the test for "right" comes first.
AlignmentRightFirst(items, line, pageWidth) ==
    LET leftMostX == MinOf({items[line[p]].x : p \in 1..Len(line)})
        rightMostX == MaxOf({items[line[p]].x + items[line[p]].width : p \in 1..Len(line)})
    IN IF 5 * rightMostX > 4 * pageWidth THEN "right"
       ELSE IF 5 * Abs((leftMostX + rightMostX) - pageWidth) < 2 * pageWidth THEN "center"
       ELSE "none"

\* The alignment of a line: "center", "right" or "none" (undefined)
Alignment(items, line, pageWidth) ==
    LET leftMostX == MinOf({items[line[p]].x : p \in 1..Len(line)})
        rightMostX == MaxOf({items[line[p]].x + items[line[p]].width : p \in 1..Len(line)})
    IN \* Math.abs(centerX - pageCenterX) / pageWidth < 0.2, times 10 * pageWidth
       IF 5 * Abs((leftMostX + rightMostX) - pageWidth) < 2 * pageWidth THEN "center"
       \* rightMostX > pageWidth * 0.8, times 5
       ELSE IF 5 * rightMostX > 4 * pageWidth THEN "right"
       ELSE "none"

\* Mutant of SpacingAfter: the two tests are in the other order.
SpacingAfterSwapped(items, lines, lineIndex) ==
    IF lineIndex < Len(lines) /\ Len(lines[lineIndex + 1]) > 0
    THEN LET gap == Abs(items[lines[lineIndex][1]].y - items[lines[lineIndex + 1][1]].y)
             first == IF gap > 40 THEN 300 ELSE 100
         IN IF gap > 20 THEN 200 ELSE first
    ELSE 100

\* spacingAfter of the line at lineIndex, whose items are sorted already
SpacingAfter(items, lines, lineIndex) ==
    IF lineIndex < Len(lines) /\ Len(lines[lineIndex + 1]) > 0
    THEN LET gap == Abs(items[lines[lineIndex][1]].y - items[lines[lineIndex + 1][1]].y)
             first == IF gap > 20 THEN 200 ELSE 100
         IN IF gap > 40 THEN 300 ELSE first
    ELSE 100

\* Mutant of TableLineCount: a line counts only with more than 3 items.
TableLineCountAboveThree(lines) == Cardinality({l \in 1..Len(lines) : Len(lines[l]) > 3})

\* tableLineCount
TableLineCount(lines) == Cardinality({l \in 1..Len(lines) : Len(lines[l]) >= 3})

TableNote(count) ==
    "[Note: Potential table structure detected with " \o ToString(count)
        \o " multi-column lines. Tab-separated columns preserved.]"

PageHeader(i) ==
    [kind |-> "pageHeader", text |-> "Page " \o ToString(i), alignment |-> "none",
     after |-> 200, line |-> 0]

\* The first paragraph of every document
Title ==
    [kind |-> "title", text |-> "Converted from PDF", alignment |-> "none",
     after |-> 400, line |-> 0]

\* The array paragraphs of convertPdf is kept in two parts: layout.document
\* holds what was pushed before the header of page layout.i, layout.paragraphs
\* what was pushed from that header on. layout.pending holds the text contents
\* of the pages after page layout.i.
\* getTextContent has resolved for page 1 of a PDF of one page and the page
\* header is pushed.
InitLayout ==
    \E items \in TextItems, width \in PageWidths :
        layout = [pc |-> "group", textItems |-> items, pageWidth |-> width,
                  lines |-> <<>>, lineIndex |-> 0, lineText |-> "",
                  tableLineCount |-> 0, paragraphs |-> <<PageHeader(1)>>,
                  i |-> 1, pending |-> <<>>, document |-> <<Title>>]

LayoutFrame == UNCHANGED <<routeVars, pdfVars, passwordVars, apiCall>>

\* The items are grouped into lines and the lines with 3 or more items counted.
GroupIntoLines ==
    /\ layout.pc = "group"
    /\ LET lines == GroupLines(layout.textItems)
       IN layout' = [layout EXCEPT !.pc = "lines",
                                   !.lines = lines,
                                   !.tableLineCount = TableLineCount(lines)]
    /\ LayoutFrame

\* Mutant of ConvertLine: a paragraph is pushed for a blank line too.
ConvertLinePushesBlank ==
    /\ layout.pc = "lines"
    /\ layout.lineIndex < Len(layout.lines)
    /\ LET lineIndex == layout.lineIndex + 1
           items == layout.textItems
           line == SortByX(items, layout.lines[lineIndex])
           lines == [layout.lines EXCEPT ![lineIndex] = line]
           lineText == TextLoop(items, line, 1, -1, "")
           paragraph == [kind |-> "line", text |-> Trim(lineText),
                         alignment |-> Alignment(items, line, layout.pageWidth),
                         after |-> SpacingAfter(items, lines, lineIndex),
                         line |-> lineIndex]
       IN layout' = [layout EXCEPT
              !.lines = lines,
              !.lineIndex = lineIndex,
              !.lineText = lineText,
              !.paragraphs = Append(layout.paragraphs, paragraph)]
    /\ LayoutFrame

\* One round of lines.forEach: the line is sorted in place, its alignment, text
\* and spacing are found and its paragraph is pushed unless the text is blank.
ConvertLine ==
    /\ layout.pc = "lines"
    /\ layout.lineIndex < Len(layout.lines)
    /\ LET lineIndex == layout.lineIndex + 1
           items == layout.textItems
           line == SortByX(items, layout.lines[lineIndex])
           lines == [layout.lines EXCEPT ![lineIndex] = line]
           lineText == TextLoop(items, line, 1, -1, "")
           paragraph == [kind |-> "line", text |-> Trim(lineText),
                         alignment |-> Alignment(items, line, layout.pageWidth),
                         after |-> SpacingAfter(items, lines, lineIndex),
                         line |-> lineIndex]
       IN layout' = [layout EXCEPT
              !.lines = lines,
              !.lineIndex = lineIndex,
              !.lineText = lineText,
              !.paragraphs = IF Trim(lineText) # ""
                             THEN Append(layout.paragraphs, paragraph)
                             ELSE layout.paragraphs]
    /\ LayoutFrame

\* After the last line: the table note, if 3 or more lines had 3 or more items.
FinishPage ==
    /\ layout.pc = "lines"
    /\ layout.lineIndex = Len(layout.lines)
    /\ layout' = [layout EXCEPT
           !.pc = "done",
           !.paragraphs = IF layout.tableLineCount >= 3
                          THEN Append(layout.paragraphs,
                                      [kind |-> "tableNote",
                                       text |-> TableNote(layout.tableLineCount),
                                       alignment |-> "none", after |-> 150, line |-> 0])
                          ELSE layout.paragraphs]
    /\ LayoutFrame

NextLayout ==
    \/ GroupIntoLines
    \/ ConvertLine
    \/ FinishPage

IdleLayout ==
    [pc |-> "done", textItems |-> <<>>, pageWidth |-> 40, lines |-> <<>>,
     lineIndex |-> 0, lineText |-> "", tableLineCount |-> 0, paragraphs |-> <<>>,
     i |-> 0, pending |-> <<>>, document |-> <<>>]

\* The text contents of the pages of the PDFs that are converted as a whole:
\* an empty page, a page with a blank line only, a page of one line, a page of
\* three lines the second of which is blank, and a page with a table.
DocumentPages ==
    {<<>>,
     <<[str |-> " ", x |-> 31, y |-> 0, width |-> 0]>>,
     Row(0, 1),
     Row(23, 1) \o <<[str |-> " ", x |-> 31, y |-> 0, width |-> 0]>> \o Row(44, 1),
     Row(0, 3) \o Row(23, 3) \o Row(44, 3)}

\* getDocument has resolved with a PDF of numPages pages: the title is pushed
\* and getPage(1) is called.
InitDocument ==
    \E numPages \in 1..MaxPages, file \in {f \in Files : f.name = "a.pdf" /\ f.size = 1} :
        \E pages \in [1..numPages -> DocumentPages] :
            /\ converter = [pdfFile |-> Some(file), isConverting |-> TRUE,
                            convertedDocx |-> Null, error |-> "", pageCount |-> 0]
            /\ convertOps = [k \in OpIds |->
                   IF k = 1
                   THEN [IdleConvertOp EXCEPT !.pc = "page", !.pdfFile = Some(file),
                                              !.numPages = numPages, !.i = 1]
                   ELSE IdleConvertOp]
            /\ layout = [IdleLayout EXCEPT !.pc = "await", !.pending = pages,
                                           !.document = <<Title>>]

DocumentFrame == page = "PdfConverter" /\ UNCHANGED <<page, converter, compressor, compressOps, download, passwordVars, routeVars, apiCall>>

\* page.getTextContent() resolves for page i: the page header is pushed and
\* the layout code of the loop body starts on the page's items.
TextContentArrives(k) ==
    /\ convertOps[k].pc = "text"
    /\ layout.pc = "await"
    /\ layout.pending # <<>>
    /\ layout' = [layout EXCEPT !.pc = "group",
                                !.i = convertOps[k].i,
                                !.textItems = Head(layout.pending),
                                !.pending = Tail(layout.pending),
                                !.lines = <<>>, !.lineIndex = 0, !.lineText = "",
                                !.tableLineCount = 0,
                                !.document = layout.document \o layout.paragraphs,
                                !.paragraphs = <<PageHeader(convertOps[k].i)>>]
    /\ convertOps' = [convertOps EXCEPT ![k] = [convertOps[k] EXCEPT !.pc = "layout"]]
    /\ DocumentFrame

\* The loop body is through: i++, then getPage for the next page or, after
\* the last page, Packer.toBlob.
PageDone(k) ==
    /\ convertOps[k].pc = "layout"
    /\ layout.pc = "done"
    /\ LET op == convertOps[k]
       IN convertOps' = [convertOps EXCEPT ![k] =
              IF op.i + 1 <= op.numPages
              THEN [op EXCEPT !.pc = "page", !.i = op.i + 1]
              ELSE [op EXCEPT !.pc = "pack", !.i = op.i + 1]]
    /\ layout' = [layout EXCEPT !.pc = "await"]
    /\ DocumentFrame

\* The conversion of a whole document, page after page.
NextDocument ==
    \/ \E k \in OpIds : PageResolves(k)
    \/ \E k \in OpIds : TextContentArrives(k)
    \/ GroupIntoLines
    \/ ConvertLine
    \/ FinishPage
    \/ \E k \in OpIds : PageDone(k)
    \/ \E k \in OpIds : PackResolves(k)

(***************************************************************************)
(* multitool.api: the API client                                           *)
(***************************************************************************)
\* ENDPOINTS.PDF_COMPRESS
PdfCompressEndpoint == "/api/pdf/v2/compress"

\* createAuthorizationHeader
CreateAuthorizationHeader(token) == "Bearer " \o token

\* createAuthHeaders
CreateAuthHeaders(token, includeContentType) ==
    IF includeContentType
    THEN [Authorization |-> CreateAuthorizationHeader(token),
          ContentType |-> "application/json"]
    ELSE [Authorization |-> CreateAuthorizationHeader(token)]

\* A thrown value: the properties it has and their values. An ApiError has
\* message, status and statusText; the Error of a rejected fetch or body read
\* has a message only.
ApiErrorValue(message, status, statusText) ==
    [properties |-> {"message", "status", "statusText"}, message |-> message,
     status |-> status, statusText |-> statusText]
ErrorValue(message) ==
    [properties |-> {"message"}, message |-> message, status |-> 0, statusText |-> ""]

ApiParams == [file : Files, compressionLevel : LevelInputs, token : Tokens]

IdleApiCall ==
    [pc |-> "idle", params |-> Null, request |-> Null, response |-> Null,
     result |-> Null, thrown |-> Null]

InitApiClient == apiCall = IdleApiCall

ApiFrame == UNCHANGED <<routeVars, pdfVars, passwordVars, layout>>

\* compressPdf(params) up to its first await: the form data and the fetch call
ApiCompressPdf(params) ==
    /\ apiCall.pc \in {"idle", "returned", "thrown"}
    /\ LET formData == [file |-> params.file,
                        compressionLevel |-> ToString(params.compressionLevel)]
       IN apiCall' = [IdleApiCall EXCEPT
              !.pc = "fetch",
              !.params = Some(params),
              !.request = Some([method |-> "POST",
                                path |-> PdfCompressEndpoint,
                                headers |-> CreateAuthHeaders(params.token, FALSE),
                                body |-> formData])]
    /\ ApiFrame

\* A rejected await: the rejection leaves compressPdf as it is.
ApiThrows(error) ==
    /\ apiCall' = [apiCall EXCEPT !.pc = "thrown", !.thrown = Some(error)]
    /\ ApiFrame

ApiFetchResolves(response) ==
    /\ apiCall.pc = "fetch"
    /\ apiCall' = [apiCall EXCEPT !.pc = IF ResponseOk(response) THEN "blob" ELSE "text",
                                  !.response = Some(response)]
    /\ ApiFrame

ApiFetchRejects(message) ==
    /\ apiCall.pc = "fetch"
    /\ ApiThrows(ErrorValue(message))

\* response.text() resolves: the ApiError is built and thrown
ApiTextResolves(errorText) ==
    /\ apiCall.pc = "text"
    /\ LET response == apiCall.response[1]
       IN ApiThrows(ApiErrorValue(HttpErrorMessage(response, errorText),
                                  response.status, response.statusText))

ApiBodyRejects(message) ==
    /\ apiCall.pc \in {"text", "blob"}
    /\ ApiThrows(ErrorValue(message))

\* response.blob() resolves: the result is returned
ApiBlobResolves(size) ==
    /\ apiCall.pc = "blob"
    /\ LET blob == [size |-> size, of |-> apiCall.params[1].file]
       IN apiCall' = [apiCall EXCEPT
              !.pc = "returned",
              !.result = Some([blob |-> blob,
                               originalSize |-> apiCall.params[1].file.size,
                               compressedSize |-> blob.size])]
    /\ ApiFrame

NextApiClient ==
    \/ \E params \in ApiParams : ApiCompressPdf(params)
    \/ \E r \in Responses : ApiFetchResolves(r)
    \/ \E m \in NetworkErrors : ApiFetchRejects(m)
    \/ \E t \in ErrorTexts : ApiTextResolves(t)
    \/ \E m \in BodyErrors : ApiBodyRejects(m)
    \/ \E n \in 0..MaxBlobSize : ApiBlobResolves(n)

(***************************************************************************)
(* App: the routes, the route guard and the navigation                     *)
(***************************************************************************)
Paths == {"/", "/pdf-converter", "/pdf-compressor", "/password-generator"}

\* Mutant of RouteElement: the compressor route is not wrapped in the guard.
RouteElementUnguarded(path) ==
    CASE path = "/" -> [component |-> "HomePage", guarded |-> FALSE]
      [] path = "/pdf-converter" -> [component |-> "PdfConverter", guarded |-> TRUE]
      [] path = "/pdf-compressor" -> [component |-> "PdfCompressor", guarded |-> FALSE]
      [] path = "/password-generator" ->
            [component |-> "PasswordGenerator", guarded |-> FALSE]
      [] OTHER -> [component |-> "none", guarded |-> FALSE]

\* <Routes>: the element of each path, and whether ProtectedRoute wraps it
RouteElement(path) ==
    CASE path = "/" -> [component |-> "HomePage", guarded |-> FALSE]
      [] path = "/pdf-converter" -> [component |-> "PdfConverter", guarded |-> TRUE]
      [] path = "/pdf-compressor" -> [component |-> "PdfCompressor", guarded |-> TRUE]
      [] path = "/password-generator" ->
            [component |-> "PasswordGenerator", guarded |-> FALSE]
      [] OTHER -> [component |-> "none", guarded |-> FALSE]

\* ProtectedRoute: the children when the session is authenticated, else the
\* redirect to the sign-in flow
ProtectedRoute(authenticated, children) ==
    IF authenticated THEN children ELSE "RedirectToSignIn"

\* What <Routes> renders at path
Rendered(path, authenticated) ==
    LET element == RouteElement(path)
    IN IF element.guarded
       THEN ProtectedRoute(authenticated, element.component)
       ELSE element.component

\* The links that Navigation and HomePage offer: the guarded pages only to an
\* authenticated session
LinkTargets(authenticated) ==
    {"/", "/password-generator"}
        \cup (IF authenticated THEN {"/pdf-converter", "/pdf-compressor"} ELSE {})

Push(h, path) == IF Len(h) < MaxHistory THEN Append(h, path) ELSE Append(Tail(h), path)

\* The app shows path: the route renders, and a guard that refuses sends the
\* browser to the identity provider.
Show(path, loading, authenticated, h) ==
    /\ isLoading' = loading
    /\ isAuthenticated' = authenticated
    /\ IF Rendered(path, authenticated) = "RedirectToSignIn"
       THEN /\ location' = "idp"
            /\ signIn' = "guard"
            /\ page' = "none"
            /\ history' = <<>>
       ELSE /\ location' = path
            /\ signIn' = "none"
            /\ page' = Rendered(path, authenticated)
            /\ history' = h

RouteFrame ==
    UNCHANGED <<compressor, compressOps, converter, convertOps, download, passwordVars,
                apiCall, layout>>

InitRoutes ==
    /\ location = "/"
    /\ history = <<>>
    /\ isLoading = TRUE
    /\ isAuthenticated = FALSE
    /\ sessionStored \in BOOLEAN
    /\ signIn = "none"
    /\ page = "HomePage"

\* The identity SDK has finished checking the session.
AuthLoaded ==
    /\ location # "idp"
    /\ isLoading
    /\ Show(location, FALSE, sessionStored, history)
    /\ UNCHANGED sessionStored
    /\ RouteFrame

\* A <Link> of the navigation bar or of the home page is followed.
FollowLink(path) ==
    /\ location # "idp"
    /\ path \in LinkTargets(isAuthenticated)
    /\ Show(path, isLoading, isAuthenticated, Push(history, location))
    /\ UNCHANGED sessionStored
    /\ RouteFrame

\* A path is typed into the address bar: the app loads afresh at that path.
EnterUrl(path) ==
    /\ Show(path, TRUE, FALSE, <<>>)
    /\ UNCHANGED sessionStored
    /\ RouteFrame

\* The browser's back button, within the app.
Back ==
    /\ location # "idp"
    /\ history # <<>>
    /\ Show(history[Len(history)], isLoading, isAuthenticated,
            SubSeq(history, 1, Len(history) - 1))
    /\ UNCHANGED sessionStored
    /\ RouteFrame

\* loginWithRedirect of the Sign In and Sign Up buttons
LoginWithRedirect(hint) ==
    /\ location # "idp"
    /\ ~isAuthenticated
    /\ location' = "idp"
    /\ signIn' = hint
    /\ page' = "none"
    /\ history' = <<>>
    /\ UNCHANGED <<isLoading, isAuthenticated, sessionStored>>
    /\ RouteFrame

\* The sign-in flow completes: the browser returns to redirect_uri, the origin.
SignInCompletes ==
    /\ location = "idp"
    /\ sessionStored' = TRUE
    /\ Show("/", TRUE, FALSE, <<>>)
    /\ RouteFrame

\* logout({ logoutParams: { returnTo: "/" } })
Logout ==
    /\ location # "idp"
    /\ isAuthenticated
    /\ sessionStored' = FALSE
    /\ Show("/", TRUE, FALSE, <<>>)
    /\ RouteFrame

NextRoutes ==
    \/ AuthLoaded
    \/ \E path \in Paths : FollowLink(path)
    \/ \E path \in Paths : EnterUrl(path)
    \/ Back
    \/ \E hint \in {"signin", "signup"} : LoginWithRedirect(hint)
    \/ SignInCompletes
    \/ Logout

(***************************************************************************)
(* Specifications                                                          *)
(***************************************************************************)
InitPdfPages ==
    /\ InitCompressor
    /\ InitConverter
    /\ download = Null

\* One of the two PDF pages is mounted, with freshly initialised state.
Init ==
    /\ page \in {"PdfCompressor", "PdfConverter"}
    /\ location = (IF page = "PdfCompressor" THEN "/pdf-compressor" ELSE "/pdf-converter")
    /\ history = <<>>
    /\ isLoading = FALSE
    /\ isAuthenticated = TRUE
    /\ sessionStored = TRUE
    /\ signIn = "none"
    /\ InitPdfPages
    /\ InitPassword
    /\ InitApiClient
    /\ layout = IdleLayout

NextPdfPages == NextCompressor \/ NextConverter

SpecPdfPages == Init /\ [][NextPdfPages]_vars

\* An awaited call of a compression in flight settles, either way.
CompressAwaitSettles ==
    \/ \E i \in OpIds, t \in Tokens : TokenResolves(i, t)
    \/ \E i \in OpIds, m \in TokenErrors : TokenRejects(i, m)
    \/ \E i \in OpIds, r \in Responses : FetchResolves(i, r)
    \/ \E i \in OpIds, m \in NetworkErrors : FetchRejects(i, m)
    \/ \E i \in OpIds, t \in ErrorTexts : TextResolves(i, t)
    \/ \E i \in OpIds, m \in BodyErrors : BodyRejects(i, m)
    \/ \E i \in OpIds, n \in 0..MaxBlobSize : BlobResolves(i, n)

\* An awaited call of a conversion in flight settles, either way.
ConvertAwaitSettles ==
    \/ \E k \in OpIds : ReadResolves(k)
    \/ \E k \in OpIds, m \in ReadErrors : ReadRejects(k, m)
    \/ \E k \in OpIds, n \in 1..MaxPages : ParseResolves(k, n)
    \/ \E k \in OpIds, m \in ParseErrors : ParseRejects(k, m)
    \/ \E k \in OpIds : PageResolves(k)
    \/ \E k \in OpIds : TextContentResolves(k)
    \/ \E k \in OpIds, m \in PageErrors : PageRejects(k, m)
    \/ \E k \in OpIds : PackResolves(k)
    \/ \E k \in OpIds, m \in PackErrors : PackRejects(k, m)

\* What starts, feeds and ends an operation on the PDF pages: the uploads, the
\* clicks on the two buttons and the awaited calls. The level slider and the
\* download buttons are left to SpecPdfPages.
NextOperations ==
    \/ \E a \in AcceptedFiles : CompressorOnDrop(a)
    \/ \E i \in OpIds : CompressClick(i)
    \/ CompressAwaitSettles
    \/ \E a \in AcceptedFiles : ConverterOnDrop(a)
    \/ \E k \in OpIds : ConvertClick(k)
    \/ ConvertAwaitSettles

\* The operations of the PDF pages when no awaited call stays pending for ever.
SpecPdfPagesFair ==
    /\ Init
    /\ [][NextOperations]_vars
    /\ WF_vars(CompressAwaitSettles)
    /\ WF_vars(ConvertAwaitSettles)

\* The password generator page.
InitGenerator ==
    /\ page = "PasswordGenerator"
    /\ location = "/password-generator"
    /\ history = <<>>
    /\ isLoading = FALSE
    /\ isAuthenticated = FALSE
    /\ sessionStored = FALSE
    /\ signIn = "none"
    /\ InitPdfPages
    /\ InitPassword
    /\ InitApiClient
    /\ layout = IdleLayout

SpecPassword == InitGenerator /\ [][NextPassword]_vars

\* The app from its first load on, seen from the router.
InitApp ==
    /\ InitRoutes
    /\ InitPdfPages
    /\ InitPassword
    /\ InitApiClient
    /\ layout = IdleLayout

SpecRoutes == InitApp /\ [][NextRoutes]_vars

\* The converter's layout of one page, for every text content within the bounds.
InitPageLayout ==
    /\ page = "PdfConverter"
    /\ location = "/pdf-converter"
    /\ history = <<>>
    /\ isLoading = FALSE
    /\ isAuthenticated = TRUE
    /\ sessionStored = TRUE
    /\ signIn = "none"
    /\ InitPdfPages
    /\ InitPassword
    /\ InitApiClient
    /\ InitLayout

SpecLayout == InitPageLayout /\ [][NextLayout]_vars

\* The converter at work on a whole PDF, from the resolved getDocument on.
InitConversion ==
    /\ page = "PdfConverter"
    /\ location = "/pdf-converter"
    /\ history = <<>>
    /\ isLoading = FALSE
    /\ isAuthenticated = TRUE
    /\ sessionStored = TRUE
    /\ signIn = "none"
    /\ InitCompressor
    /\ download = Null
    /\ InitDocument
    /\ InitPassword
    /\ InitApiClient

SpecDocument == InitConversion /\ [][NextDocument]_vars

\* The API client, called by some caller that holds a file, a level and a token.
SpecApiClient == InitApp /\ [][NextApiClient]_vars

(***************************************************************************)
(* Properties                                                              *)
(***************************************************************************)
\* s, which ends in suffix, with that suffix replaced by rep
ReplaceSuffix(s, suffix, rep) == SubSeq(s, 1, Len(s) - Len(suffix)) \o rep

NonPdfFiles == {f \in Files : f.type # PdfMime}
InFlight(ops) == {i \in OpIds : ops[i].pc # "idle"}

GuardedPages == {"PdfConverter", "PdfCompressor"}
GuardedPaths == {"/pdf-converter", "/pdf-compressor"}

\* C2: whenever the auth session is not authenticated, neither PdfConverter nor
\* PdfCompressor is mounted and the browser is not left on /pdf-converter or
\* /pdf-compressor: the guard has sent it to the sign-in flow.
C2_GuardedRoutes ==
    ~isAuthenticated =>
        /\ page \notin GuardedPages
        /\ location \notin GuardedPaths

\* The guard has sent an unauthenticated visitor to the sign-in flow.
C2_Witness ==
    /\ ~isAuthenticated
    /\ location = "idp"
    /\ signIn = "guard"
    /\ page = "none"

\* C3: on each PDF page at most one operation is in flight, and while one is in
\* flight the busy flag is set and the trigger control is disabled.
C3_SingleOperation ==
    /\ Cardinality(InFlight(compressOps)) <= 1
    /\ Cardinality(InFlight(convertOps)) <= 1
    /\ InFlight(compressOps) # {} =>
          compressor.isCompressing /\ CompressDisabled(compressor)
    /\ InFlight(convertOps) # {} =>
          converter.isConverting /\ ConvertDisabled(converter)

\* A compress operation waits for the backend while another file was selected.
C3_Witness ==
    \E i \in OpIds :
        /\ compressOps[i].pc = "fetch"
        /\ compressor.pdfFile # compressOps[i].pdfFile

ConvertErrors == ReadErrors \cup ParseErrors \cup PageErrors \cup PackErrors

\* C4: when reading, parsing or serializing throws, convertPdf catches it: the
\* error is "Failed to convert PDF: " followed by the exception message, no
\* converted document is stored, nothing is downloaded and no operation is
\* left running (no second attempt, no other format).
C4_ConvertFailure ==
    [][\A k \in OpIds, m \in ConvertErrors :
          (ReadRejects(k, m) \/ ParseRejects(k, m) \/ PageRejects(k, m)
             \/ PackRejects(k, m)) =>
                /\ converter'.error = "Failed to convert PDF: " \o m
                /\ converter'.convertedDocx = Null
                /\ download' = download
                /\ InFlight(convertOps') = {}]_vars

\* A conversion failed after an earlier one had succeeded and was downloaded.
C4_Witness ==
    /\ StartsWith(converter.error, "Failed to convert PDF: ")
    /\ converter.convertedDocx = Null
    /\ download # Null

C6_ReductionNotNegative ==
    compressor.compressionStats # Null =>
        LET st == compressor.compressionStats[1]
        IN /\ ~IsNegative(st.reduction)
           /\ st.originalSize > 0 =>
                 /\ st.reduction.kind = "num"
                 /\ st.reduction.den > 0
                 /\ IF st.compressedSize <= st.originalSize
                    THEN st.reduction.num * st.originalSize
                            = (st.originalSize - st.compressedSize) * 100 * st.reduction.den
                    ELSE st.reduction.num = 0

\* Statistics of a result that is larger than its original.
C6_Witness ==
    /\ compressor.compressionStats # Null
    /\ compressor.compressionStats[1].originalSize > 0
    /\ compressor.compressionStats[1].compressedSize
          > compressor.compressionStats[1].originalSize

NoClassEnabled(o) == ~o.uppercase /\ ~o.lowercase /\ ~o.numbers /\ ~o.symbols

\* The characters of the classes that o enables
EnabledClasses(o) ==
    (IF o.lowercase THEN Lowercase ELSE "")
        \o (IF o.uppercase THEN Uppercase ELSE "")
        \o (IF o.numbers THEN Digits ELSE "")
        \o (IF o.symbols THEN Symbols ELSE "")

AllCharsIn(s, chars) == \A j \in 0..(Len(s) - 1) : Contains(chars, CharAt(s, j))

\* No option change is waiting for its regeneration.
Regenerated == generatorMounted /\ debounceTimer = Null

\* C7: with uppercase, lowercase, numbers and symbols all disabled,
\* generatePassword sets the password to the literal "Please select at least
\* one character type", never to an empty or partly built string.
C7_PlaceholderWhenNoClass ==
    (generatedFrom # Null /\ NoClassEnabled(generatedFrom[1])) =>
        password = "Please select at least one character type"

\* The placeholder is on display after the regeneration for options without
\* any class.
C7_Witness ==
    /\ Regenerated
    /\ NoClassEnabled(options)
    /\ password = "Please select at least one character type"

\* C8 as stated: for every option set and every outcome of the random source
\* the password that generatePassword sets has the configured length.
C8_LengthForEveryOptionSet ==
    generatedFrom # Null => Len(password) = generatedFrom[1].length

\* C8 as amended: for every option set that enables at least one character
\* class and every outcome of the random source, the password that
\* generatePassword sets has the configured length, which lies in 8..50; with no
\* class enabled the placeholder message is set whatever the length.
C8_LengthWhenClassEnabled ==
    generatedFrom # Null =>
        /\ generatedFrom[1].length \in MinLength..MaxLength
        /\ IF NoClassEnabled(generatedFrom[1])
           THEN password = PlaceholderMessage
           ELSE Len(password) = generatedFrom[1].length
        /\ Regenerated => generatedFrom[1].length = options.length

\* A password of the largest length is on display.
C8_Witness ==
    /\ Regenerated
    /\ options.length = MaxLength
    /\ ~NoClassEnabled(options)
    /\ Len(password) = MaxLength

\* C9 as stated: the password set by the regeneration that follows an option
\* change consists only of characters of the classes enabled at that time.
C9_OnlyEnabledClasses ==
    Regenerated => AllCharsIn(password, EnabledClasses(options))

\* C9 as amended: the password set by the regeneration that follows an option
\* change consists only of characters of the classes enabled at that time,
\* unless no class is enabled: then it is the placeholder message.
C9_OnlyEnabledClassesOrPlaceholder ==
    Regenerated =>
        IF NoClassEnabled(options)
        THEN password = PlaceholderMessage
        ELSE password # "" /\ AllCharsIn(password, EnabledClasses(options))

\* After the numbers were switched off, the regeneration has run and a
\* password is on display.
C9_Witness ==
    /\ Regenerated
    /\ ~options.numbers
    /\ ~NoClassEnabled(options)
    /\ password # ""

\* C11: one activation of the compress trigger makes at most one token request
\* and at most one HTTP POST; a token request is made only by a click on the
\* enabled trigger, a POST only by the operation whose token request has just
\* resolved, and when an operation ends, by failure or success, no operation
\* is left that could make another request.
C11_NoRetries ==
    [][\A i \in OpIds :
          /\ compressOps'[i].tokenRequests <= 1
          /\ compressOps'[i].posts <= 1
          /\ compressOps'[i].tokenRequests > compressOps[i].tokenRequests =>
                ~CompressDisabled(compressor) /\ CompressClick(i)
          /\ compressOps'[i].posts > compressOps[i].posts =>
                /\ compressOps[i].pc = "token"
                /\ compressOps[i].posts = 0
                /\ compressOps'[i].tokenRequests = compressOps[i].tokenRequests
          /\ (compressOps[i].pc # "idle" /\ compressOps'[i].pc = "idle") =>
                \A j \in OpIds : compressOps'[j] = IdleOp]_vars

\* An operation has failed on the network after its one POST, and nothing is
\* running.
C11_Witness ==
    /\ compressor.error = "Failed to compress PDF: Failed to fetch"
    /\ \A i \in OpIds : compressOps[i] = IdleOp
    /\ ~compressor.isCompressing

\* C12: a POST is sent only by an operation that has obtained a token from
\* getAccessTokenSilently since its click, and carries that token; when the
\* token request fails, the operation ends without a request and with the
\* error set.
C12_TokenOnDemand ==
    [][\A i \in OpIds :
          /\ compressOps'[i].posts > compressOps[i].posts =>
                /\ compressOps[i].pc = "token"
                /\ compressOps[i].token = ""
                /\ compressOps[i].tokenRequests = 1
                /\ compressOps'[i].token \in Tokens
                /\ compressOps'[i].request[1].authorization
                      = "Bearer " \o compressOps'[i].token
          /\ compressOps'[i].request # Null => compressOps'[i].token \in Tokens
          /\ \A m \in TokenErrors :
                TokenRejects(i, m) =>
                    /\ compressOps[i].posts = 0
                    /\ compressOps'[i].posts = 0
                    /\ compressOps'[i].request = Null
                    /\ compressor'.error = "Failed to compress PDF: " \o m
                    /\ ~compressor'.isCompressing]_vars

\* The token request has failed: the error is on display and nothing was sent.
C12_Witness ==
    /\ compressor.error = "Failed to compress PDF: Login required"
    /\ \A i \in OpIds : compressOps[i].request = Null
    /\ ~compressor.isCompressing

\* C15 as stated: in every state of the mounted generator the displayed
\* password has been generated from the options as they are now, so also right
\* after each option change.
C15_RegeneratedSynchronously ==
    generatorMounted => generatedFrom = Some(options)

\* C15 as amended: an option change does not regenerate the password at once;
\* it starts the debounce timer, whose callback will generate from the changed
\* options. In every state of the mounted generator either that timer is
\* pending for the options as they are now, or the displayed password has been
\* generated from them.
C15_RegeneratedAfterDebounce ==
    generatorMounted =>
        IF debounceTimer # Null
        THEN debounceTimer[1].options = options
        ELSE generatedFrom = Some(options)

\* An option was changed and the password of the earlier options is still on
\* display while the timer runs.
C15_Witness ==
    /\ generatorMounted
    /\ debounceTimer # Null
    /\ debounceTimer[1].options = options
    /\ generatedFrom # Null
    /\ generatedFrom # Some(options)
    /\ password = GeneratedPassword(generatedFrom[1], 0)

\* C16: while the token request or the HTTP call of a compress operation has
\* not settled, every step leaves the busy flag true and the trigger disabled;
\* the busy flag is cleared only by a step in which the running operation
\* ends. So it stays true for as long as the call does not settle.
C16_BusyUntilSettled ==
    [][/\ \A i \in OpIds :
            (compressOps[i].pc \in {"token", "fetch"} /\ compressOps'[i] = compressOps[i]) =>
                /\ compressor.isCompressing /\ compressor'.isCompressing
                /\ CompressDisabled(compressor')
       /\ (compressor.isCompressing /\ ~compressor'.isCompressing) =>
            \E i \in OpIds : compressOps[i].pc # "idle" /\ compressOps'[i].pc = "idle"]_vars

\* While the HTTP call is pending an upload was rejected: the page has taken
\* a step and is still busy.
C16_Witness ==
    /\ \E i \in OpIds : compressOps[i].pc = "fetch"
    /\ compressor.error = "Please upload a valid PDF file"
    /\ compressor.isCompressing

\* C17 as stated: on neither PDF page are a non-empty error message and a
\* stored result (compressed PDF, converted document) present together.
C17_NoErrorWithResult ==
    /\ ~(compressor.error # "" /\ compressor.compressedPdf # Null)
    /\ ~(converter.error # "" /\ converter.convertedDocx # Null)

\* C17 as amended: the error of a failed operation is never present together
\* with a stored result; the only error message that a stored result can
\* stand beside is that of a rejected upload, "Please upload a valid PDF
\* file".
C17_OnlyUploadErrorWithResult ==
    /\ (compressor.error # "" /\ compressor.compressedPdf # Null) =>
          compressor.error = "Please upload a valid PDF file"
    /\ (converter.error # "" /\ converter.convertedDocx # Null) =>
          converter.error = "Please upload a valid PDF file"
    /\ StartsWith(compressor.error, "Failed to compress PDF: ") =>
          compressor.compressedPdf = Null
    /\ StartsWith(converter.error, "Failed to convert PDF: ") =>
          converter.convertedDocx = Null

\* A converted document is stored and the message of a rejected upload is
\* on display.
C17_Witness ==
    /\ converter.convertedDocx # Null
    /\ converter.error = "Please upload a valid PDF file"

\* The request that operation i sends in this step has the documented shape.
RequestShape(i) ==
    LET r == compressOps'[i].request[1]
    IN /\ r.method = "POST"
       /\ r.path = "/api/pdf/v2/compress"
       /\ \E t \in Tokens : r.authorization = "Bearer " \o t
       /\ \E v \in 0..100 : r.body.compressionLevel = ToString(v)

RECURSIVE Flatten(_)
Flatten(seqs) == IF seqs = <<>> THEN <<>> ELSE Head(seqs) \o Flatten(Tail(seqs))

\* The line that holds item n
LineOf(lines, n) ==
    CHOOSE l \in 1..Len(lines) : \E p \in 1..Len(lines[l]) : lines[l][p] = n

\* The lines of the page are grouped and none is sorted yet.
Grouped == layout.pc = "lines" /\ layout.lineIndex = 0

\* C18: after the grouping every fragment is in exactly one line, the lines
\* and the fragments in them are in input order, no line is empty, and each
\* fragment after the first is in the line of its predecessor if and only if
\* its y differs by at most 2 from the y of that line's first fragment.
C18_LineGrouping ==
    Grouped =>
        LET items == layout.textItems
            lines == layout.lines
        IN /\ Flatten(lines) = [n \in 1..Len(items) |-> n]
           /\ \A l \in 1..Len(lines) : lines[l] # <<>>
           /\ \A n \in 2..Len(items) :
                 LET l == LineOf(lines, n - 1)
                 IN (LineOf(lines, n) = l)
                        <=> (Abs(items[n].y - items[lines[l][1]].y) <= 2)

\* The line that has just been converted
Converted == layout.pc = "lines" /\ layout.lineIndex >= 1

\* The fragments of line from position p on, each behind its separator: a tab
\* when its x exceeds the right edge of the fragment before it by more than
\* 20, else one space
RECURSIVE Separated(_, _, _)
Separated(items, line, p) ==
    IF p > Len(line) THEN ""
    ELSE LET item == items[line[p]]
             before == items[line[p - 1]]
         IN (IF item.x - (before.x + before.width) > 20 THEN "\t" ELSE " ")
                \o item.str \o Separated(items, line, p + 1)

\* C19: the fragments of a converted line are in ascending x, and the line
\* text is the first fragment followed by each further fragment behind exactly
\* one separator: a tab when its x exceeds the previous fragment's right edge
\* by more than 20, one space otherwise.
C19_Separators ==
    Converted =>
        LET items == layout.textItems
            line == layout.lines[layout.lineIndex]
        IN /\ \A p, q \in 1..Len(line) : p < q => items[line[p]].x <= items[line[q]].x
           /\ layout.lineText = items[line[1]].str \o Separated(items, line, 2)

\* The vertical distance from the converted line to the line after it, from
\* the first fragment of the one to the first fragment of the other
GapToNextLine ==
    LET items == layout.textItems
        lines == layout.lines
        lineIndex == layout.lineIndex
    IN Abs(items[lines[lineIndex][1]].y - items[lines[lineIndex + 1][1]].y)

\* C20: the paragraph of a converted line has spacing 300 when the gap to the
\* next line of the page exceeds 40, 200 when it exceeds 20 but not 40, and
\* 100 otherwise; the last line of the page has 100; no line paragraph has any
\* other spacing.
C20_ParagraphSpacing ==
    /\ \A k \in 1..Len(layout.paragraphs) :
          layout.paragraphs[k].kind = "line" =>
              layout.paragraphs[k].after \in {100, 200, 300}
    /\ (Converted /\ Trim(layout.lineText) # "") =>
          LET paragraph == layout.paragraphs[Len(layout.paragraphs)]
          IN /\ paragraph.kind = "line"
             /\ paragraph.line = layout.lineIndex
             /\ paragraph.after =
                   IF layout.lineIndex = Len(layout.lines) THEN 100
                   ELSE IF GapToNextLine > 40 THEN 300
                   ELSE IF GapToNextLine > 20 THEN 200
                   ELSE 100

\* A page of three lines was converted: the first paragraph has spacing 300,
\* the second 200 and the last 100.
C20_Witness ==
    /\ layout.pc = "done"
    /\ Len(layout.paragraphs) = 4
    /\ layout.paragraphs[2].after = 300
    /\ layout.paragraphs[3].after = 200
    /\ layout.paragraphs[4].after = 100

\* C23: at most one debounce timeout is pending, and it belongs to the options
\* as they are after the last change; every option change replaces what was
\* pending by one timeout of 200 ms; a timeout fires only when its 200 ms
\* have passed, ends pending and generates from the options of the last
\* change; after the unmount nothing is pending, so nothing fires.
C23_Debounce ==
    /\ [](Len(debounceTimer) <= 1)
    /\ [](~generatorMounted => debounceTimer = <<>>)
    /\ [][/\ (generatorMounted /\ generatorMounted' /\ options' # options) =>
               debounceTimer' = <<[options |-> options', remaining |-> 200]>>
          /\ (generatorMounted /\ generatorMounted' /\ generatedFrom' # generatedFrom
                 /\ debounceTimer' # debounceTimer) =>
               /\ debounceTimer # <<>>
               /\ debounceTimer[1].remaining = 0
               /\ debounceTimer' = <<>>
               /\ generatedFrom' = Some(options)
          /\ (debounceTimer # <<>> /\ debounceTimer' # <<>>
                 /\ debounceTimer'[1].remaining > debounceTimer[1].remaining) =>
               debounceTimer'[1].remaining = 200]_vars

\* Two option changes were made 100 ms apart and 200 ms have passed since
\* the second: its timeout is due, and the password of the options before
\* the burst is still on display.
C23_Witness ==
    /\ generatorMounted
    /\ Len(debounceTimer) = 1
    /\ debounceTimer[1].remaining = 0
    /\ debounceTimer[1].options = options
    /\ ~options.numbers /\ ~options.symbols
    /\ generatedFrom = Some(DefaultOptions)

\* The lines of the page that hold 3 or more fragments
TableLines == {l \in 1..Len(layout.lines) : Len(layout.lines[l]) >= 3}

TableNotes == {k \in 1..Len(layout.paragraphs) : layout.paragraphs[k].kind = "tableNote"}

\* C21: a page's paragraphs hold a table note if and only if the page is done
\* and at least 3 of its lines hold 3 or more fragments; there is one note at
\* most, it is the last paragraph, behind every line paragraph, and it reports
\* the number of those lines.
C21_TableNote ==
    /\ layout.pc # "done" => TableNotes = {}
    /\ layout.pc = "done" =>
          /\ TableNotes # {} <=> Cardinality(TableLines) >= 3
          /\ \A k \in TableNotes :
                /\ k = Len(layout.paragraphs)
                /\ layout.paragraphs[k].text =
                      "[Note: Potential table structure detected with "
                        \o ToString(Cardinality(TableLines))
                        \o " multi-column lines. Tab-separated columns preserved.]"

\* A page of four lines, three of them with three fragments, is done and its
\* note is behind the four line paragraphs.
C21_Witness ==
    /\ layout.pc = "done"
    /\ Len(layout.lines) = 4
    /\ Cardinality(TableLines) = 3
    /\ Len(layout.paragraphs) = 6
    /\ layout.paragraphs[6].kind = "tableNote"

\* The edges of the converted line
LeftEdge ==
    LET line == layout.lines[layout.lineIndex]
    IN MinOf({layout.textItems[line[p]].x : p \in 1..Len(line)})
RightEdge ==
    LET line == layout.lines[layout.lineIndex]
    IN MaxOf({layout.textItems[line[p]].x + layout.textItems[line[p]].width
                : p \in 1..Len(line)})

\* The midpoint (LeftEdge + RightEdge) / 2 is less than 20% of the page width
\* away from the page center pageWidth / 2; both sides times 10.
MidpointNearCenter ==
    Abs(5 * (LeftEdge + RightEdge) - 5 * layout.pageWidth) < 2 * layout.pageWidth

\* RightEdge exceeds 80% of the page width; both sides times 5.
RightEdgeFar == 5 * RightEdge > 4 * layout.pageWidth

\* C22: the paragraph of a converted line has exactly one alignment: center
\* when the line's midpoint is within 20% of the page width from the page
\* center, otherwise right when its rightmost edge exceeds 80% of the page
\* width, otherwise none; center wins when both hold.
C22_Alignment ==
    (Converted /\ Trim(layout.lineText) # "") =>
        LET paragraph == layout.paragraphs[Len(layout.paragraphs)]
        IN /\ paragraph.line = layout.lineIndex
           /\ paragraph.alignment \in {"center", "right", "none"}
           /\ paragraph.alignment = "center" <=> MidpointNearCenter
           /\ paragraph.alignment = "right" <=> (~MidpointNearCenter /\ RightEdgeFar)
           /\ paragraph.alignment = "none" <=> (~MidpointNearCenter /\ ~RightEdgeFar)

\* A line that is near the center and reaches beyond 80% of the page width
\* was converted, and its paragraph is centered.
C22_Witness ==
    /\ Converted
    /\ Trim(layout.lineText) # ""
    /\ MidpointNearCenter
    /\ RightEdgeFar
    /\ layout.paragraphs[Len(layout.paragraphs)].alignment = "center"

IsApiError(v) == {"message", "status", "statusText"} \subseteq v.properties

\* C13 as stated: a call of the API client's compressPdf that has ended has
\* either thrown an ApiError (message, status, statusText) or returned the
\* response blob with originalSize the file's size and compressedSize the
\* blob's size; it throws whenever the request failed and returns nothing for a
\* non-2xx response.
C13_ApiClientContract ==
    /\ apiCall.pc = "thrown" =>
          /\ apiCall.thrown # Null /\ apiCall.result = Null
          /\ IsApiError(apiCall.thrown[1])
    /\ apiCall.pc = "returned" =>
          /\ apiCall.thrown = Null /\ apiCall.result # Null
          /\ ResponseOk(apiCall.response[1])
          /\ apiCall.result[1].originalSize = apiCall.params[1].file.size
          /\ apiCall.result[1].compressedSize = apiCall.result[1].blob.size
    /\ apiCall.result # Null => apiCall.pc = "returned"

\* C10: for every selected file whose name ends in ".pdf", the download name is
\* that name with the ".pdf" suffix replaced: by "_compressed.pdf" in the
\* compressor, by ".docx" in the converter.
C10_SuffixReplaced ==
    [][/\ (DownloadCompressed /\ EndsWith(compressor.pdfFile[1].name, ".pdf")) =>
             download'[1].name
                = ReplaceSuffix(compressor.pdfFile[1].name, ".pdf", "_compressed.pdf")
       /\ (DownloadConverted /\ EndsWith(converter.pdfFile[1].name, ".pdf")) =>
             download'[1].name = ReplaceSuffix(converter.pdfFile[1].name, ".pdf", ".docx")
      ]_vars

\* C24 as stated: a stored result (compressedPdf, convertedDocx) was produced
\* from the file that pdfFile holds, and the stored originalSize is the size
\* of that file.
C24_ResultOfSelectedFile ==
    /\ compressor.compressedPdf # Null =>
          /\ compressor.pdfFile # Null
          /\ compressor.compressedPdf[1].of = compressor.pdfFile[1]
          /\ compressor.compressionStats # Null
          /\ compressor.compressionStats[1].originalSize = compressor.pdfFile[1].size
    /\ converter.convertedDocx # Null =>
          /\ converter.pdfFile # Null
          /\ converter.convertedDocx[1].of = converter.pdfFile[1]

\* C25: the step in which a compression or a conversion settles, by its
\* result or by any exception, leaves the busy flag false and the button
\* enabled; and when no awaited call stays pending for ever, a busy flag
\* that is set is cleared at some later time.
C25_BusyFlagCleared ==
    /\ [][/\ \A i \in OpIds :
                (compressOps[i].pc # "idle" /\ compressOps'[i].pc = "idle") =>
                    /\ ~compressor'.isCompressing
                    /\ ~CompressDisabled(compressor')
          /\ \A k \in OpIds :
                (convertOps[k].pc # "idle" /\ convertOps'[k].pc = "idle") =>
                    /\ ~converter'.isConverting
                    /\ ~ConvertDisabled(converter')]_vars
    /\ (compressor.isCompressing \/ converter.isConverting)
          ~> ~(compressor.isCompressing \/ converter.isConverting)

\* A conversion has failed in Packer.toBlob, after its pages were read: the
\* busy flag is cleared and the button is enabled.
C25_Witness ==
    /\ converter.error = ConvertFailedPrefix \o "Invalid array length"
    /\ InFlight(convertOps) = {}
    /\ ~converter.isConverting
    /\ ~ConvertDisabled(converter)

\* C26: an onDrop with a file that is not of the PDF type changes the error
\* message and nothing else: the selected file, the stored result, the
\* statistics or the page count, the busy flag, the level, the operations in
\* flight and the last download stay as they are; an onDrop without a file
\* changes nothing at all.
C26_RejectedUploadKeepsState ==
    [][/\ \A f \in NonPdfFiles :
             /\ CompressorOnDrop(<<f>>) =>
                   /\ compressor' = [compressor EXCEPT !.error = InvalidPdfMessage]
                   /\ UNCHANGED <<compressOps, converter, convertOps, download>>
             /\ ConverterOnDrop(<<f>>) =>
                   /\ converter' = [converter EXCEPT !.error = InvalidPdfMessage]
                   /\ UNCHANGED <<convertOps, compressor, compressOps, download>>
       /\ (CompressorOnDrop(<<>>) \/ ConverterOnDrop(<<>>)) => UNCHANGED vars]_vars

\* An upload was rejected on the compressor while a compressed file and its
\* statistics were on display: they are still there, with the selected file.
C26_Witness ==
    /\ compressor.error = InvalidPdfMessage
    /\ compressor.pdfFile # Null
    /\ compressor.compressedPdf # Null
    /\ compressor.compressionStats # Null
    /\ ~compressor.isCompressing

PdfFiles == {f \in Files : f.type = PdfMime}

\* C27: right after an onDrop with a file of the PDF type, pdfFile is that
\* file, the error is empty and the earlier result is gone: compressedPdf and
\* compressionStats are null in the compressor, convertedDocx is null and
\* pageCount is 0 in the converter.
C27_AcceptedUploadResets ==
    [][\A f \in PdfFiles :
          /\ CompressorOnDrop(<<f>>) =>
                /\ compressor'.pdfFile = Some(f)
                /\ compressor'.error = ""
                /\ compressor'.compressedPdf = Null
                /\ compressor'.compressionStats = Null
          /\ ConverterOnDrop(<<f>>) =>
                /\ converter'.pdfFile = Some(f)
                /\ converter'.error = ""
                /\ converter'.convertedDocx = Null
                /\ converter'.pageCount = 0]_vars

\* A document of two pages was converted and downloaded, then another PDF
\* was accepted: the new file is selected and nothing of the result is left.
C27_Witness ==
    /\ download # Null
    /\ download[1].name = "a.docx"
    /\ download[1].blob.pages = 2
    /\ converter.pdfFile # Null
    /\ converter.pdfFile[1].name = "b.pdf.pdf"
    /\ converter.convertedDocx = Null
    /\ converter.pageCount = 0
    /\ converter.error = ""
    /\ InFlight(convertOps) = {}

HardToRead == {"i", "l", "o", "I", "O", "0", "1"}
ReadableSymbols == "!@#$%^&*"

\* The characters of s, as a set
CharsOf(s) == {CharAt(s, j) : j \in 0..(Len(s) - 1)}

\* The set chars keeps clear of what the two filters of o exclude
Filtered(chars, o) ==
    /\ o.easyToSay => chars \cap HardToSay = {}
    /\ o.easyToRead =>
          /\ chars \cap HardToRead = {}
          /\ chars \cap CharsOf(Symbols) \subseteq CharsOf(ReadableSymbols)

\* C28 as stated: for every combination of the other options, what
\* generatePassword sets with easyToSay enabled holds none of 0, O, o, I, l, 1,
\* and what it sets with easyToRead enabled holds none of i, l, o, I, O, 0, 1
\* and no symbol outside !@#$%^&*.
C28_FiltersForEveryOptionSet ==
    generatedFrom # Null => Filtered(CharsOf(password), generatedFrom[1])

\* C28 as amended: the same for every option set that enables at least one
\* character class, where it holds for the whole character set and so for
\* every outcome of the random source; with no class enabled the placeholder
\* message is set, filters or not.
C28_FiltersWhenClassEnabled ==
    generatedFrom # Null =>
        IF NoClassEnabled(generatedFrom[1])
        THEN password = PlaceholderMessage
        ELSE LET charset == CharsOf(Charset(generatedFrom[1]))
             IN /\ Filtered(charset, generatedFrom[1])
                /\ CharsOf(password) \subseteq charset
                /\ Filtered(CharsOf(password), generatedFrom[1])

\* A password of the largest length made of all four classes with both
\* filters enabled is on display.
C28_Witness ==
    /\ Regenerated
    /\ options.easyToSay /\ options.easyToRead
    /\ options.lowercase /\ options.uppercase /\ options.numbers /\ options.symbols
    /\ options.length = MaxLength
    /\ generatedFrom = Some(options)
    /\ Len(password) = MaxLength

\* C29: for every combination of easyToSay and easyToRead, the character set
\* that generatePassword builds is empty if and only if uppercase, lowercase,
\* numbers and symbols are all disabled; so the placeholder message is set
\* for those option sets and for no other.
C29_EmptyCharsetIffNoClass ==
    generatedFrom # Null =>
        /\ Len(Charset(generatedFrom[1])) = 0 <=> NoClassEnabled(generatedFrom[1])
        /\ password = PlaceholderMessage <=> NoClassEnabled(generatedFrom[1])

\* With both filters enabled and the numbers as the only class, a password
\* and not the placeholder is on display.
C29_Witness ==
    /\ Regenerated
    /\ generatedFrom = Some(options)
    /\ options.easyToSay /\ options.easyToRead
    /\ options.numbers
    /\ ~options.lowercase /\ ~options.uppercase /\ ~options.symbols
    /\ password # PlaceholderMessage
    /\ Len(password) = options.length

\* The paragraphs array of convertPdf
Doc == layout.document \o layout.paragraphs

IsPageHeader(p) == p.kind = "pageHeader"

\* Line l of the current page has a fragment that is not blank
HasText(l) ==
    \E p \in 1..Len(layout.lines[l]) :
        layout.textItems[layout.lines[l][p]].str \notin Whitespace

LineParagraphs ==
    {layout.paragraphs[k].line :
        k \in {j \in 1..Len(layout.paragraphs) : layout.paragraphs[j].kind = "line"}}

\* C30: the paragraphs start with the title "Converted from PDF"; the page
\* headers in it are "Page 1", "Page 2", ... in this order, one per page
\* reached, the first right after the title; a page's line paragraphs follow
\* its header in line order, one for every line with text and none for a
\* blank line; a table note is followed by the next page's header only; and
\* the stored pageCount is numPages, with one header per page.
C30_DocumentOrder ==
    /\ Len(Doc) >= 1 /\ Doc[1] = Title
    /\ \A k \in 2..Len(Doc) : Doc[k].kind # "title"
    /\ Len(Doc) >= 2 => IsPageHeader(Doc[2])
    /\ SelectSeq(Doc, IsPageHeader) = [j \in 1..layout.i |-> PageHeader(j)]
    /\ \A k \in 1..(Len(Doc) - 1) :
          /\ (Doc[k].kind = "line" /\ Doc[k + 1].kind = "line") =>
                Doc[k].line < Doc[k + 1].line
          /\ Doc[k].kind = "tableNote" => IsPageHeader(Doc[k + 1])
    /\ layout.i >= 1 =>
          /\ Len(layout.paragraphs) >= 1
          /\ layout.paragraphs[1] = PageHeader(layout.i)
          /\ LineParagraphs = {l \in 1..layout.lineIndex : HasText(l)}
    /\ converter.convertedDocx # Null =>
          /\ layout.pending = <<>>
          /\ converter.pageCount = layout.i
          /\ converter.pageCount = converter.convertedDocx[1].pages

\* A PDF of two pages is converted and stored: the first page had three lines
\* with a blank one in the middle, the second a table.
C30_Witness ==
    /\ converter.convertedDocx # Null
    /\ converter.pageCount = 2
    /\ Len(Doc) = 9
    /\ Doc[2] = PageHeader(1)
    /\ Doc[3].line = 1 /\ Doc[4].line = 3
    /\ Doc[5] = PageHeader(2)
    /\ Doc[9].kind = "tableNote"

====
